---- MODULE Spec2Model ----
(***************************************************************************)
(* OAuth install / callback / uninstall flows of reworkd_platform:         *)
(*   services/oauth_installers.py  (SlackInstaller, SIDInstaller)          *)
(*   web/api/auth/views.py         (the routes calling them, sid_info)     *)
(*                                                                         *)
(* A handler is a coroutine: it runs without interruption from one await   *)
(* to the next, so each handler is cut into one action per stretch between *)
(* awaits that touch the database or the provider.  The credential table   *)
(* (OAuthCrud, OauthCredentials) and the encryption service live outside   *)
(* the two source files; they are modelled from their description: a row   *)
(* per installation, looked up by state or by (user, provider), soft       *)
(* deletion, and every change a handler makes to a record reaching the     *)
(* table (create_installation, save, delete, the session's commit).        *)
(*                                                                         *)
(* Spec lets up to MaxInflight requests overlap; SpecSeq handles one       *)
(* request at a time and records the history the sequential statements     *)
(* refer to (the previous response, the states already used).              *)
(***************************************************************************)
EXTENDS Integers, Sequences, FiniteSets, Bags

\* ------------------------------------------------------------- bounds
\* rows the table may hold; handlers that may be suspended at once
MaxRows == 2
MaxInflight == 2

\* ------------------------------------------------------------- inputs

Users == {"alice", "bob"}
Redirects == {"https://app/done", "https://app/other"}
\* the access token a provider answers the code exchange with
Tokens == {"tokA"}
RevokeOutcomes == {"ok", "rejected", "timeout"}
\* states a callback may present: every issuable one and one never issued
StateTokens == 1..(MaxRows + 1)

\* rows: the credential table; reqs: the handlers suspended at an await;
\* resp: the response this step returned; net: the provider exchange this
\* step made; serial: whether the server takes one request at a time.
\* History, kept for serial runs: last, the previous response of an install
\* or uninstall route; consumed, the states a callback has succeeded for and
\* no install has handed out again since
VARIABLES rows, reqs, resp, net, serial, last, consumed
vars == <<rows, reqs, resp, net, serial, last, consumed>>

\* ------------------------------------------------------------- values
\* Python values of the nullable string columns: None, a str, or the
\* ciphertext the encryption service returns.
None == [k |-> "none", v |-> ""]
Str(s) == [k |-> "str", v |-> s]
EmptyStr == Str("")
DecryptError == [k |-> "raise", v |-> ""]

\* encryption_service.encrypt(plaintext) -> ciphertext
Encrypt(p) == [k |-> "enc", v |-> p.v]
\* encryption_service.decrypt(ciphertext) -> plaintext; raises on anything
\* that is not ciphertext (None, "")
Decrypt(c) == IF c.k = "enc" THEN Str(c.v) ELSE DecryptError

\* the refresh token SID issues along with access token t
RefreshOf(t) == IF t = "tokA" THEN "refA" ELSE "refB"

\* ------------------------------------------------------------- store
Ids == 1..Len(rows)

\* OAuthCrud.create_installation: a pending record with a fresh state
NewRow(u, p, r) ==
    [user |-> u, provider |-> p, state |-> Len(rows) + 1, redirect_uri |-> r,
     access_token_enc |-> None, refresh_token_enc |-> None,
     token_type |-> None, scope |-> None,
     access_token_expiration |-> None, delete_date |-> None]

\* OAuthCrud.get_installation_by_state: the record or absent (0)
GetInstallationByState(s) ==
    IF \E i \in Ids : rows[i].state = s
    THEN {i \in Ids : rows[i].state = s}
    ELSE {0}

\* OAuthCrud.get_installation_by_user_id: a record or absent (0); with
\* several rows of the pair, whichever the query returns
GetInstallationByUserId(u, p) ==
    IF \E i \in Ids : rows[i].user = u /\ rows[i].provider = p
    THEN {i \in Ids : rows[i].user = u /\ rows[i].provider = p}
    ELSE {0}

\* ------------------------------------------------------------- requests
\* a handler suspended at an await: its route, where it resumes, its locals
Req == [op |-> "", pc |-> "", prov |-> "", user |-> "", redirect |-> "",
         state |-> 0, id |-> 0, tok |-> None]
NoNet == [call |-> "", sent |-> "", status |-> "",
          access |-> "", refresh |-> ""]
NoResp == [op |-> "", prov |-> "", user |-> "", result |-> "",
           state |-> 0, redirect |-> ""]

\* the history of a serial run, updated with every response
Remember(rsp) ==
    /\ last' = IF rsp.op \in {"install", "uninstall"} THEN rsp ELSE NoResp
    /\ consumed' =
         IF rsp.op = "callback" /\ rsp.result = "ok"
         THEN consumed \cup {rsp.state}
         ELSE IF rsp.op = "install" THEN consumed \ {rsp.state}
         ELSE consumed

\* the response a route returns
Respond(o, p, u, res, s, r) ==
    LET rsp == [op |-> o, prov |-> p, user |-> u,
                result |-> res, state |-> s, redirect |-> r]
    IN  /\ resp' = rsp
        /\ serial' = serial
        /\ IF serial THEN Remember(rsp) ELSE UNCHANGED <<last, consumed>>
\* one HTTP exchange with a provider
Call(c, sent, status, a, r) ==
    net' = [call |-> c, sent |-> sent, status |-> status,
            access |-> a, refresh |-> r]

\* a step that returns no response / makes no provider exchange
NoResponse == resp' = NoResp /\ UNCHANGED <<serial, last, consumed>>
NoCall == net' = NoNet

\* a request arrives and is suspended as q / the suspended q resumes as q2 /
\* the suspended q returns
CanStart == BagCardinality(reqs) < (IF serial THEN 1 ELSE MaxInflight)
Suspend(q) == reqs' = reqs (+) SetToBag({q})
Resume(q, q2) == reqs' = (reqs (-) SetToBag({q})) (+) SetToBag({q2})
Return(q) == reqs' = reqs (-) SetToBag({q})

Start ==
    /\ rows = <<>>
    /\ reqs = EmptyBag
    /\ resp = NoResp
    /\ net = NoNet
    /\ last = NoResp
    /\ consumed = {}
Init == Start /\ serial = FALSE
InitSeq == Start /\ serial = TRUE

\* ------------------------------------------------------------- helpers
\* mutant: the token is stored as received
StoreAccessToken_Plain(creds, access_token) ==
    [creds EXCEPT !.access_token_enc = access_token]

\* OAuthInstaller.store_access_token
StoreAccessToken(creds, access_token) ==
    [creds EXCEPT !.access_token_enc = Encrypt(access_token)]

\* OAuthInstaller.store_refresh_token
StoreRefreshToken(creds, refresh_token) ==
    [creds EXCEPT !.refresh_token_enc = Encrypt(refresh_token)]

\* creds.save(session): the record's changed columns reach its row
Save(id, creds) == rows' = [rows EXCEPT ![id] = creds]

\* creds.delete(session): soft delete, the row stays with delete_date set
Delete(id, creds) ==
    rows' = [rows EXCEPT ![id] = [creds EXCEPT !.delete_date = Str("now")]]

\* mutant: the empty string counts as a token
Connected_NoneOnly(id) ==
    /\ id # 0
    /\ rows[id].access_token_enc # None

\* sid_info: connected
Connected(id) ==
    /\ id # 0
    /\ rows[id].access_token_enc # None
    /\ rows[id].access_token_enc # EmptyStr

\* the JSON boolean of a response
Bool(b) == IF b THEN "true" ELSE "false"

\* ------------------------------------------------------------- Slack
\* GET /slack -> SlackInstaller.install
SlackInstall(u, r) ==
    /\ CanStart
    /\ Len(rows) < MaxRows
    /\ rows' = Append(rows, NewRow(u, "slack", r))
    /\ Respond("install", "slack", u, "url", Len(rows) + 1, r)
    /\ UNCHANGED reqs /\ NoCall

\* mutant: the code is exchanged before the record is looked up
SlackCallbackLookup_ExchangeFirst(s) ==
    /\ CanStart
    /\ \E id \in GetInstallationByState(s) :
        IF id = 0
        THEN /\ Call("slack.oauth_v2_access", "code", "ok", "tokA", "")
             /\ Respond("callback", "slack", "", "forbidden", s, "")
             /\ UNCHANGED <<rows, reqs>>
        ELSE /\ Suspend(
                    [Req EXCEPT !.op = "callback", !.pc = "exchange",
                                !.prov = "slack", !.state = s, !.id = id])
             /\ UNCHANGED rows /\ NoResponse /\ NoCall

\* GET /slack/callback -> SlackInstaller.install_callback, up to the lookup
SlackCallbackLookup(s) ==
    /\ CanStart
    /\ \E id \in GetInstallationByState(s) :
        IF id = 0
        THEN /\ Respond("callback", "slack", "", "forbidden", s, "")
             /\ UNCHANGED <<rows, reqs>> /\ NoCall
        ELSE /\ Suspend(
                    [Req EXCEPT !.op = "callback", !.pc = "exchange",
                                 !.prov = "slack", !.state = s, !.id = id])
             /\ UNCHANGED rows /\ NoResponse /\ NoCall

\* ... oauth_v2_access (synchronous), store, save, redirect
SlackCallbackExchange(q) ==
    /\ q.op = "callback" /\ q.prov = "slack"
    /\ q.pc = "exchange"
    /\ LET id == q.id IN
       \/ /\ Call("slack.oauth_v2_access", "code", "error", "", "")
          /\ Respond("callback", "slack", "", "provider_error", q.state, "")
          /\ UNCHANGED rows
       \/ \E t \in Tokens :
          /\ Call("slack.oauth_v2_access", "code", "ok", t, "")
          /\ Save(id, [StoreAccessToken(rows[id], Str(t)) EXCEPT
                          !.token_type = Str("bot"),
                          !.scope = Str("chat:write")])
          /\ Respond("callback", "slack", "", "ok", q.state,
                     rows[id].redirect_uri)
    /\ Return(q)

\* GET /slack/uninstall -> SlackInstaller.uninstall
SlackUninstall(u) ==
    /\ CanStart
    /\ Respond("uninstall", "slack", u, "not_implemented", 0, "")
    /\ UNCHANGED <<rows, reqs>> /\ NoCall

\* ------------------------------------------------------------- SID
\* GET /sid -> SIDInstaller.install, up to the lookup; an existing record
\* (live or soft-deleted) is un-deleted and the URL is built from the state
\* it already carries; redirect_uri is used by create_installation only
SidInstallLookup(u, r) ==
    /\ CanStart
    /\ \E id \in GetInstallationByUserId(u, "sid") :
        IF id # 0
        THEN /\ rows' = [rows EXCEPT ![id].delete_date = None]
             /\ Respond("install", "sid", u, "url", rows[id].state, r)
             /\ UNCHANGED reqs /\ NoCall
        ELSE /\ Suspend(
                    [Req EXCEPT !.op = "install", !.pc = "create",
                                 !.prov = "sid", !.user = u, !.redirect = r])
             /\ UNCHANGED rows /\ NoResponse /\ NoCall

\* ... create_installation and the authorize URL
SidInstallCreate(q) ==
    /\ q.op = "install" /\ q.pc = "create"
    /\ Len(rows) < MaxRows
    /\ rows' = Append(rows, NewRow(q.user, "sid", q.redirect))
    /\ Respond("install", "sid", q.user, "url", Len(rows) + 1,
               q.redirect)
    /\ Return(q)
    /\ NoCall

\* mutant: the record is looked up by provider, not by state
SidCallbackLookup_AnySid(s) ==
    /\ CanStart
    /\ \E id \in IF \E i \in Ids : rows[i].provider = "sid"
                 THEN {i \in Ids : rows[i].provider = "sid"} ELSE {0} :
        IF id = 0
        THEN /\ Respond("callback", "sid", "", "forbidden", s, "")
             /\ UNCHANGED <<rows, reqs>> /\ NoCall
        ELSE /\ Suspend(
                    [Req EXCEPT !.op = "callback", !.pc = "exchange",
                                !.prov = "sid", !.state = s, !.id = id])
             /\ UNCHANGED rows /\ NoResponse /\ NoCall

\* GET /sid/callback -> SIDInstaller.install_callback, up to the lookup
SidCallbackLookup(s) ==
    /\ CanStart
    /\ \E id \in GetInstallationByState(s) :
        IF id = 0
        THEN /\ Respond("callback", "sid", "", "forbidden", s, "")
             /\ UNCHANGED <<rows, reqs>> /\ NoCall
        ELSE /\ Suspend(
                    [Req EXCEPT !.op = "callback", !.pc = "exchange",
                                 !.prov = "sid", !.state = s, !.id = id])
             /\ UNCHANGED rows /\ NoResponse /\ NoCall

\* ... the token request, store, save, redirect
SidCallbackExchange(q) ==
    /\ q.op = "callback" /\ q.prov = "sid"
    /\ q.pc = "exchange"
    /\ LET id == q.id IN
       \/ /\ Call("sid.token", "code", "error", "", "")
          /\ Respond("callback", "sid", "", "provider_error", q.state, "")
          /\ UNCHANGED rows
       \/ \E t \in Tokens :
          /\ Call("sid.token", "code", "ok", t, RefreshOf(t))
          /\ Save(id, [StoreRefreshToken(StoreAccessToken(rows[id], Str(t)),
                                         Str(RefreshOf(t)))
                          EXCEPT !.access_token_expiration = Str("now+expires_in")])
          /\ Respond("callback", "sid", "", "ok", q.state,
                     rows[id].redirect_uri)
    /\ Return(q)

\* GET /sid/uninstall -> SIDInstaller.uninstall: lookup, check, decrypt.
\* The check compares access_token_enc with "" only, so a record whose token
\* columns are None goes on to decrypt, which raises
SidUninstallLookup(u) ==
    /\ CanStart
    /\ \E id \in GetInstallationByUserId(u, "sid") :
        IF id = 0 \/ (id # 0 /\ rows[id].access_token_enc = EmptyStr)
        THEN /\ Respond("uninstall", "sid", u, "false", 0, "")
             /\ UNCHANGED <<rows, reqs>> /\ NoCall
        ELSE IF Decrypt(rows[id].refresh_token_enc) = DecryptError
        THEN /\ Respond("uninstall", "sid", u, "error", 0, "")
             /\ UNCHANGED <<rows, reqs>> /\ NoCall
        ELSE /\ Suspend(
                    [Req EXCEPT !.op = "uninstall", !.pc = "delete",
                                 !.prov = "sid", !.user = u, !.id = id,
                                 !.tok = Decrypt(rows[id].refresh_token_enc)])
             /\ UNCHANGED rows /\ NoResponse /\ NoCall

\* mutant: the revoke request goes out before the record is deleted
SidUninstallDelete_RevokeFirst(q) ==
    /\ q.op = "uninstall" /\ q.pc = "delete"
    /\ Call("sid.revoke", q.tok.v, "ok", "", "")
    /\ Resume(q, [q EXCEPT !.pc = "revoke"])
    /\ UNCHANGED rows /\ NoResponse

\* ... clear both fields and delete the record
SidUninstallDelete(q) ==
    /\ q.op = "uninstall" /\ q.pc = "delete"
    /\ Delete(q.id, [rows[q.id] EXCEPT
                              !.access_token_enc = EmptyStr,
                              !.refresh_token_enc = EmptyStr])
    /\ Resume(q, [q EXCEPT !.pc = "revoke"])
    /\ NoResponse /\ NoCall

\* ... post the revoke request, return True
SidUninstallRevoke(q) ==
    /\ q.op = "uninstall" /\ q.pc = "revoke"
    /\ \E o \in RevokeOutcomes :
        /\ Call("sid.revoke", q.tok.v, o, "", "")
        /\ Respond("uninstall", "sid", q.user,
                   IF o = "timeout" THEN "error" ELSE "true", 0, "")
    /\ Return(q)
    /\ UNCHANGED rows

\* GET /sid/info
SidInfo(u) ==
    /\ CanStart
    /\ \E id \in GetInstallationByUserId(u, "sid") :
        Respond("info", "sid", u, Bool(Connected(id)), 0, "")
    /\ UNCHANGED <<rows, reqs>> /\ NoCall

\* ------------------------------------------------------------- system
Next ==
    \/ \E u \in Users, r \in Redirects : SlackInstall(u, r)
    \/ \E s \in StateTokens : SlackCallbackLookup(s)
    \/ \E q \in BagToSet(reqs) : SlackCallbackExchange(q)
    \/ \E u \in Users : SlackUninstall(u)
    \/ \E u \in Users, r \in Redirects : SidInstallLookup(u, r)
    \/ \E q \in BagToSet(reqs) : SidInstallCreate(q)
    \/ \E s \in StateTokens : SidCallbackLookup(s)
    \/ \E q \in BagToSet(reqs) : SidCallbackExchange(q)
    \/ \E u \in Users : SidUninstallLookup(u)
    \/ \E q \in BagToSet(reqs) : SidUninstallDelete(q)
    \/ \E q \in BagToSet(reqs) : SidUninstallRevoke(q)
    \/ \E u \in Users : SidInfo(u)

\* requests overlap: up to MaxInflight handlers are suspended at an await
Spec == Init /\ [][Next]_vars

\* one request at a time: a request starts only when none is suspended
SpecSeq == InitSeq /\ [][Next]_vars

\* ------------------------------------------------------------- claims
HasRowWithState(s) == \E i \in Ids : rows[i].state = s
StatesUnique == \A i, j \in Ids : rows[i].state = rows[j].state => i = j
Holds(field) == field # None /\ field # EmptyStr
\* user u has a SID record in table rs with a set, non-empty access token
HasToken(rs, u) ==
    \E i \in 1..Len(rs) :
        /\ rs[i].user = u /\ rs[i].provider = "sid"
        /\ Holds(rs[i].access_token_enc)

\* C1: install(user, R) followed immediately by install_callback with the
\* state the install returned succeeds (it is not refused) and redirects
\* to R, for both providers and whatever the user's record was before.
C1_CallbackRedirectsToRequested ==
    [][(/\ last.op = "install"
        /\ resp'.op = "callback"
        /\ resp'.prov = last.prov
        /\ resp'.state = last.state)
       => /\ resp'.result # "forbidden"
          /\ resp'.result = "ok" => resp'.redirect = last.redirect]_vars

\* C2: a callback whose state matches no stored record is answered
\* forbidden by the lookup alone: no provider exchange is made, nothing is
\* suspended, and the table is unchanged.
C2_UnknownStateForbidden ==
    [][(resp'.op = "callback" /\ ~HasRowWithState(resp'.state))
       => /\ resp'.result = "forbidden"
          /\ rows' = rows
          /\ reqs' = reqs
          /\ net' = NoNet]_vars
C2_Witness ==
    /\ resp.op = "callback" /\ resp.result = "forbidden"
    /\ \E i \in Ids : Holds(rows[i].access_token_enc)

\* C3: a state is single-use: once a callback has succeeded for it, every
\* later callback with the same state (not issued again since) is answered
\* forbidden and leaves the table as it is.
C3_StateSingleUse ==
    [][(resp'.op = "callback" /\ resp'.state \in consumed)
       => /\ resp'.result = "forbidden"
          /\ rows' = rows]_vars

\* C4: a SID install right after the same user's successful uninstall keeps
\* the table's size, clears delete_date of the user's row, and hands out a
\* state that differs from the one the row carried before.
C4_ReinstallFreshState ==
    [][(/\ last.op = "uninstall" /\ last.prov = "sid" /\ last.result = "true"
        /\ resp'.op = "install" /\ resp'.prov = "sid"
        /\ resp'.user = last.user)
       => /\ Len(rows') = Len(rows)
          /\ \E i \in Ids :
               /\ rows[i].user = resp'.user /\ rows[i].provider = "sid"
               /\ rows'[i].delete_date = None
               /\ rows'[i].state = resp'.state
               /\ resp'.state # rows[i].state]_vars

\* C5: a SID uninstall by a user who has no record, or only records without
\* a token (pending, or already uninstalled), returns false, makes no
\* provider exchange and leaves the table unchanged.
C5_UninstallWithoutTokenIsNoOp ==
    [][(/\ reqs = EmptyBag
        /\ resp'.op = "uninstall" /\ resp'.prov = "sid"
        /\ ~HasToken(rows, resp'.user))
       => /\ resp'.result = "false"
          /\ rows' = rows
          /\ net' = NoNet]_vars

\* C6: the table never holds two rows of the same (user, provider) pair.
C6_OneRowPerUserProvider ==
    \A i, j \in Ids :
        (rows[i].user = rows[j].user /\ rows[i].provider = rows[j].provider)
            => i = j

\* C7: every token column of every row is unset, empty or ciphertext after
\* every step, and a successful callback leaves in its record a value that
\* differs from the plaintext the provider returned and decrypts to it.
C7_TokensStoredEncrypted ==
    [][/\ \A i \in 1..Len(rows') :
            /\ Holds(rows'[i].access_token_enc)
                   => rows'[i].access_token_enc.k = "enc"
            /\ Holds(rows'[i].refresh_token_enc)
                   => rows'[i].refresh_token_enc.k = "enc"
       /\ (resp'.op = "callback" /\ resp'.result = "ok")
            => \E i \in Ids :
                 /\ rows[i].state = resp'.state
                 /\ rows'[i].access_token_enc # Str(net'.access)
                 /\ Decrypt(rows'[i].access_token_enc) = Str(net'.access)
                 /\ resp'.prov = "sid" =>
                      /\ rows'[i].refresh_token_enc # Str(net'.refresh)
                      /\ Decrypt(rows'[i].refresh_token_enc)
                             = Str(net'.refresh)]_vars
C7_Witness ==
    \E i \in Ids :
        /\ rows[i].access_token_enc.k = "enc"
        /\ rows[i].refresh_token_enc.k = "enc"
        /\ resp.op = "callback" /\ resp.result = "ok"

\* C8: with one request at a time, /sid/info answers connected exactly when
\* the user has a SID record with a set, non-empty access token; a
\* successful callback makes that so for the record's user and a successful
\* uninstall ends it.
C8_InfoConnected ==
    [][/\ resp'.op = "info"
            => resp'.result = Bool(HasToken(rows, resp'.user))
       /\ (resp'.op = "callback" /\ resp'.result = "ok")
            => \A i \in Ids :
                 (rows[i].state = resp'.state /\ rows[i].provider = "sid")
                     => HasToken(rows', rows[i].user)
       /\ (resp'.op = "uninstall" /\ resp'.prov = "sid"
               /\ resp'.result = "true")
            => ~HasToken(rows', resp'.user)]_vars
C8_Witness ==
    /\ resp.op = "info" /\ resp.result = "false"
    /\ \E i \in Ids :
         /\ rows[i].user = resp.user /\ rows[i].provider = "sid"
         /\ rows[i].delete_date # None
    /\ \E j \in Ids : rows[j].user # resp.user /\ HasToken(rows, rows[j].user)

\* C9: with unique states, a callback changes no row but the one that
\* carries its state: a successful one stores the exchanged token there and
\* leaves that row's owner, state, redirect_uri and delete_date alone; a
\* failed one changes nothing.  No row is ever added by a callback.
C9_CallbackTouchesOnlyItsRecord ==
    [][(resp'.op = "callback" /\ StatesUnique)
       => IF resp'.result = "ok"
          THEN \E i \in Ids :
                 /\ rows[i].state = resp'.state
                 /\ Len(rows') = Len(rows)
                 /\ \A j \in Ids \ {i} : rows'[j] = rows[j]
                 /\ rows'[i].user = rows[i].user
                 /\ rows'[i].provider = rows[i].provider
                 /\ rows'[i].state = rows[i].state
                 /\ rows'[i].redirect_uri = rows[i].redirect_uri
                 /\ rows'[i].delete_date = rows[i].delete_date
                 /\ rows'[i].access_token_enc = Encrypt(Str(net'.access))
          ELSE rows' = rows]_vars
C9_Witness ==
    /\ resp.op = "callback" /\ resp.result = "ok"
    /\ \E i \in Ids, q \in BagToSet(reqs) :
         /\ rows[i].state = resp.state
         /\ q.op = "callback" /\ q.pc = "exchange"
         /\ rows[q.id].user # rows[i].user
         /\ ~Holds(rows[q.id].access_token_enc)

\* C10: SID uninstall of a record holding a token runs in this order: the
\* refresh token is decrypted from the stored value while the row is still
\* intact; then both fields are cleared and the row deleted, with no
\* exchange made yet; only then the revoke request goes out, carrying the
\* decrypted token.  The revoke step never touches the table, whatever the
\* provider answers, and returns true for an accepted and a rejected revoke.
C10_UninstallOrder ==
    [][/\ \A q \in BagToSet(reqs') :
            (q.op = "uninstall" /\ CopiesIn(q, reqs') > CopiesIn(q, reqs))
            => IF q.pc = "delete"
               THEN /\ Holds(rows[q.id].access_token_enc)
                    /\ q.tok = Decrypt(rows[q.id].refresh_token_enc)
                    /\ q.tok.k = "str"
                    /\ rows' = rows
                    /\ net' = NoNet
               ELSE /\ q.pc = "revoke"
                    /\ [q EXCEPT !.pc = "delete"] \in BagToSet(reqs)
                    /\ rows'[q.id].access_token_enc = EmptyStr
                    /\ rows'[q.id].refresh_token_enc = EmptyStr
                    /\ rows'[q.id].delete_date # None
                    /\ net' = NoNet
                    /\ resp' = NoResp
       /\ net'.call = "sid.revoke"
            => /\ \E q \in BagToSet(reqs) :
                    /\ q.op = "uninstall" /\ q.pc = "revoke"
                    /\ CopiesIn(q, reqs') < CopiesIn(q, reqs)
                    /\ net'.sent = q.tok.v
                    /\ resp'.user = q.user
               /\ net'.sent # ""
               /\ rows' = rows
               /\ resp'.op = "uninstall"
               /\ net'.status \in {"ok", "rejected"} => resp'.result = "true"]_vars
C10_Witness ==
    /\ net.call = "sid.revoke" /\ net.status = "rejected" /\ net.sent = "refA"
    /\ resp.op = "uninstall" /\ resp.result = "true"
    /\ \E i \in Ids :
         /\ rows[i].user = resp.user /\ rows[i].provider = "sid"
         /\ rows[i].access_token_enc = EmptyStr
         /\ rows[i].refresh_token_enc = EmptyStr
         /\ rows[i].delete_date # None

====
